---- MODULE Spec2Model ----
(***************************************************************************)
(* HallEffectEditor (src/main/python/editor/halleffect_editor.py): the     *)
(* click-to-commit state machine, the staged option values, the            *)
(* get/set_key_config frames handed to usb_send and the per-widget         *)
(* display, as a state machine with one action per Qt slot / method.       *)
(***************************************************************************)
EXTENDS Integers, Sequences, FiniteSets, TLC

VARIABLES
    device,                 \* self.device
    keyboard,               \* self.keyboard
    container,              \* self.container (KeyboardWidget): its widgets and their text
    tabs,                   \* tab names currently held by self.tabs_widget
    tabs_enabled,           \* self.tabs_widget.isEnabled()
    last_clicked_key,       \* self.last_clicked_key
    last_click_count,       \* self.last_click_count
    integer_option_values,  \* self.integer_option_values
    lastOp,                 \* history: the handler that ran last and its input
    sent,                   \* history: frames handed to self.usb_send by that handler, in order
    replies,                \* history: the buffers usb_send returned to that handler, in order
    raised,                 \* history: the exception that handler ended with ("none" if it returned)
    layout_set,             \* history: whether that handler reached keyboard.set_layout_options
    lastStaged,             \* history: per field, the value most recently staged (0 if never)
    lastSelected,           \* history: the key of the most recent selection event (NoKey: none)
    scenarioStep,           \* history: progress of the run along the scenario of section 8
    selectedRun,            \* history: length of the run of selection events for lastSelected
    keymap,                 \* the keymap slot on_keycode_changed writes, and its last write
    codec                   \* one set_key_config frame and what the response decoder reads in it

vars == <<device, keyboard, container, tabs, tabs_enabled, last_clicked_key,
          last_click_count, integer_option_values,
          lastOp, sent, replies, raised, layout_set, lastStaged, lastSelected,
          scenarioStep, selectedRun, keymap, codec>>

-----------------------------------------------------------------------------
(* Bounds of the model *)

\* last_click_count is unbounded in the code; a key is not clicked again once it reached this
MaxClicks == 3

\* spin boxes that hold a value other than their initial 0 at the same time
MaxStaged == 2

\* values a spin box is asked to take (the code allows 0..255)
StageVals == {0, 5, 256}

-----------------------------------------------------------------------------
(* Protocol constants, __init__ *)

command_id == 255
channel_id == 0
id_custom_get_key_config == 1
id_custom_set_key_config == 2
id_custom_get_lut_config == 3
id_custom_set_lut_config == 4

\* the five labels of create_key_config_tab / the keys of integer_option_values
OptionNames == {"Mode", "Actuation Point", "Deadzone", "Up Sensitivity", "Down Sensitivity"}

\* IntegerOption(label, ..., min_val=0, max_val=255)
SpinMin == 0
\* max_val of IntegerOption.__init__ when the caller passes none
SpinMaxDefault == 1000
SpinMax == 255

NoKey == <<>>          \* None as a coordinate (last_clicked_key, no active key)
NoRow == -1            \* widget.desc.row is None

-----------------------------------------------------------------------------
(* The devices rebuild() can be handed *)

Devices == {"none", "plain", "heA", "heB", "heC"}

\* a keyboard whose keys are not matrix positions: one without row and col, one
\* with a negative col
DevicesUnaddressable == {"none", "heD"}

\* isinstance(self.device, VialKeyboard)
IsVialKeyboard(d) == d # "none"

has_hall_effect(d) == d \in {"heA", "heB", "heC", "heD"}

hall_effect_tabs(d) ==
    CASE d = "heA" -> {"Key Config", "Displacement"}
      [] d = "heB" -> {"Calibration", "Joystick"}
      [] d = "heC" -> {"Key Config"}
      [] d = "heD" -> {"Key Config", "Calibration"}
      [] OTHER -> {}

\* keyboard.keys as (row, col) of each key, in widget order
keys(d) ==
    CASE d = "heA" -> << <<0, 0>>, <<1, 2>> >>
      [] d = "heC" -> << <<1, 2>> >>
      [] d = "heB" -> << <<0, 0>> >>
      [] d = "heD" -> << <<NoRow, NoRow>>, <<0, -2>> >>
      [] OTHER -> << >>

Coordinates == { <<0, 0>>, <<1, 2>> }

\* valid()
valid(d) == IsVialKeyboard(d) /\ has_hall_effect(d)

\* "Key Config" in (self.keyboard.hall_effect_tabs if self.keyboard else [])
HasKeyConfig(kb) == kb # "none" /\ "Key Config" \in hall_effect_tabs(kb)

tab_mapping == {"Key Config", "Displacement", "Joystick", "Calibration"}

-----------------------------------------------------------------------------
(* The transport: what one usb_send call answers *)

\* configurations the device may report for a key
CfgScenario == <<2, 30, 5, 10, 12>>
CfgOther == <<0, 40, 0, 0, 7>>

\* "raise": retries exhausted; "short": a buffer that ends inside the payload
GetAnswers == {"scenario", "other", "short", "raise"}
SetAnswers == {"ok", "raise"}

\* the buffer usb_send returns for request frame data
usb_response(data, ans) ==
    LET header == SubSeq(data, 1, 5)
    IN  CASE ans = "scenario" -> header \o CfgScenario \o <<0, 0>>
          [] ans = "other" -> header \o CfgOther
          [] ans = "short" -> header \o <<2, 30>>
          [] OTHER -> header

-----------------------------------------------------------------------------
(* Pure helpers *)

\* struct.pack("B"*n, ...): one unsigned byte per value, struct.error outside 0..255
struct_pack_ok(values) == \A i \in 1..Len(values) : values[i] \in 0..255
struct_pack(values) == values

\* a slice that pads what the buffer lacks with zero bytes
slice_padded(data, a, b) ==
    [i \in 1..(b - a) |-> IF a + i <= Len(data) THEN data[a + i] ELSE 0]

\* data[a:b] of Python, 0-based, clipped to the buffer
slice(data, a, b) ==
    IF a >= Len(data) THEN <<>>
    ELSE SubSeq(data, a + 1, IF b < Len(data) THEN b ELSE Len(data))

\* struct.unpack("BBBBB", buf) succeeds only on exactly 5 bytes
struct_unpack5_ok(buf) == Len(buf) = 5

\* the f-string of code_for_widget
config_text(buf) ==
    <<"Mode: ", buf[1], "\n", buf[2], ", ", buf[3], "\n", buf[4], ", ", buf[5]>>

\* a read request under the LUT sub-command
get_frame_lut(row, col) ==
    struct_pack(<<command_id, id_custom_get_lut_config, channel_id, row, col>>)

\* the get_key_config request of code_for_widget
get_frame(row, col) ==
    struct_pack(<<command_id, id_custom_get_key_config, channel_id, row, col>>)

\* actuation point and deadzone in each other's place
set_frame_swapped(row, col, values) ==
    struct_pack(<<command_id, id_custom_set_key_config, channel_id, row, col,
                  values["Mode"], values["Deadzone"], values["Actuation Point"],
                  values["Up Sensitivity"], values["Down Sensitivity"]>>)

\* the set_key_config request of on_key_clicked
set_frame(row, col, values) ==
    struct_pack(<<command_id, id_custom_set_key_config, channel_id, row, col,
                  values["Mode"], values["Actuation Point"], values["Deadzone"],
                  values["Up Sensitivity"], values["Down Sensitivity"]>>)

\* code_for_widget(widget): the text it returns, the frame it hands over, the
\* buffer it gets back, how it ends
code_for_widget(key, dev, ans) ==
    IF key[1] # NoRow
    THEN LET data == get_frame(key[1], key[2])
             reply == usb_response(data, ans)
             buf == slice(reply, 5, 10)
             none == [text |-> <<>>, sent |-> <<>>, replies |-> <<>>, err |-> "none"]
         IN  IF ~struct_pack_ok(data)
             THEN [none EXCEPT !.err = "struct.error"]
             ELSE IF dev = "none"      \* self.device.dev on None
             THEN [none EXCEPT !.err = "AttributeError"]
             ELSE IF ans = "raise"
             THEN [none EXCEPT !.sent = <<data>>, !.err = "RuntimeError"]
             ELSE IF struct_unpack5_ok(buf)
             THEN [text |-> config_text(buf), sent |-> <<data>>, replies |-> <<reply>>,
                   err |-> "none"]
             ELSE [none EXCEPT !.sent = <<data>>, !.replies = <<reply>>,
                               !.err = "struct.error"]
    ELSE [text |-> <<"None">>, sent |-> <<>>, replies |-> <<>>, err |-> "none"]

\* every widget is refreshed whatever the coordinate
refresh_selects_all(refresh_all, key, coordinate) == TRUE

\* whether the loop of refresh_key_display refreshes widget key
refresh_selects(refresh_all, key, coordinate) == refresh_all \/ key = coordinate

\* the loop of refresh_key_display from widget i on: the exception of one
\* code_for_widget ends it before that widget's setText
RECURSIVE refresh_loop(_, _, _, _, _, _)
refresh_loop(i, c, refresh_all, coordinate, dev, oracle) ==
    IF i > Len(c.keys)
    THEN [text |-> c.text, sent |-> <<>>, replies |-> <<>>, err |-> "none"]
    ELSE IF refresh_selects(refresh_all, c.keys[i], coordinate)
    THEN LET r == code_for_widget(c.keys[i], dev, oracle[i])
         IN  IF r.err # "none"
             THEN [text |-> c.text, sent |-> r.sent, replies |-> r.replies, err |-> r.err]
             ELSE LET rest == refresh_loop(i + 1, [c EXCEPT !.text[i] = r.text],
                                           refresh_all, coordinate, dev, oracle)
                  IN  [text |-> rest.text, sent |-> r.sent \o rest.sent,
                       replies |-> r.replies \o rest.replies, err |-> rest.err]
    ELSE refresh_loop(i + 1, c, refresh_all, coordinate, dev, oracle)

\* refresh_key_display(refresh_all, coordinate)
refresh_key_display(kb, c, refresh_all, coordinate, dev, oracle) ==
    IF HasKeyConfig(kb)
    THEN refresh_loop(1, c, refresh_all, coordinate, dev, oracle)
    ELSE [text |-> c.text, sent |-> <<>>, replies |-> <<>>, err |-> "none"]

\* one answer of the transport per widget the loop refreshes ("unused" for the others)
Oracles(c, refresh_all, coordinate) ==
    { o \in [1..Len(c.keys) -> GetAnswers \cup {"unused"}] :
        \A i \in 1..Len(c.keys) :
            (o[i] = "unused") <=> ~refresh_selects(refresh_all, c.keys[i], coordinate) }

-----------------------------------------------------------------------------
(* Initial state: after __init__ *)

NoContainer == [exists |-> FALSE, keys |-> <<>>, text |-> <<>>]

EditorInit ==
    /\ device = "none"
    /\ keyboard = "none"
    /\ container = NoContainer
    /\ tabs = {}
    /\ tabs_enabled = TRUE
    /\ last_clicked_key = NoKey
    /\ last_click_count = 0
    /\ integer_option_values = [n \in OptionNames |-> 0]
    /\ lastOp = [op |-> "init", key |-> NoKey]
    /\ sent = <<>>
    /\ replies = <<>>
    /\ raised = "none"
    /\ layout_set = FALSE
    /\ lastStaged = [n \in OptionNames |-> 0]
    /\ lastSelected = NoKey
    /\ scenarioStep = [on |-> TRUE, step |-> 0]
    /\ selectedRun = 0

\* the editor alone: no keymap write and no frame on the bench
KeymapIdle ==
    [stored |-> [outer |-> "", inner |-> "KC_A"], new |-> [outer |-> "", inner |-> "KC_A"],
     masked |-> FALSE, result |-> <<>>, written |-> FALSE]
CodecIdle ==
    [row |-> 0, col |-> 0, values |-> [n \in OptionNames |-> 0], frame |-> <<>>,
     decoded |-> <<>>, step |-> "idle"]

Init == EditorInit /\ keymap = KeymapIdle /\ codec = CodecIdle

-----------------------------------------------------------------------------
(* History of the run against the scenario of section 8 *)

\* the run has left the scenario
NoScenario == [on |-> FALSE, step |-> 0]
ScenarioKey == <<1, 2>>

\* step is the step the run takes the scenario to, reached only from the step before it
scenario_next(step, applies) ==
    IF scenarioStep.on /\ scenarioStep.step = step - 1 /\ applies
    THEN [on |-> TRUE, step |-> step]
    ELSE NoScenario

-----------------------------------------------------------------------------
(* store_integer_value(name): the spin box of name now holds v *)

\* the other fields fall back to their default
store_value_reset(values, name, v) == [n \in DOMAIN values |-> IF n = name THEN v ELSE 0]

\* line 300
store_value(values, name, v) == [values EXCEPT ![name] = v]

store_integer_value(name, v) ==
    /\ container.exists /\ "Key Config" \in tabs /\ tabs_enabled
    /\ v \in SpinMin..SpinMax
    /\ Cardinality({n \in OptionNames :
                       store_value(integer_option_values, name, v)[n] # 0}) <= MaxStaged
    /\ integer_option_values' = store_value(integer_option_values, name, v)
    /\ lastStaged' = [lastStaged EXCEPT ![name] = v]
    /\ lastOp' = [op |-> "store", key |-> NoKey]
    /\ sent' = <<>>
    /\ replies' = <<>>
    /\ raised' = "none"
    /\ layout_set' = FALSE
    /\ scenarioStep' = scenario_next(3, name = "Mode" /\ v = 5)
    /\ UNCHANGED <<device, keyboard, container, tabs, tabs_enabled,
                   last_clicked_key, last_click_count, lastSelected, selectedRun,
                   keymap, codec>>

-----------------------------------------------------------------------------
(* on_key_clicked(): container.active_key is key (NoKey: none) *)

\* a selection event without a key leaves the click state alone
clicked_state_kept(key, last_key, last_count) ==
    IF key # NoKey
    THEN IF key = last_key
         THEN [key |-> last_key, count |-> last_count + 1]
         ELSE [key |-> key, count |-> 1]
    ELSE [key |-> last_key, count |-> last_count]

\* the count keeps running when another key is clicked
clicked_state_counting(key, last_key, last_count) ==
    IF key # NoKey
    THEN [key |-> key, count |-> last_count + 1]
    ELSE [key |-> NoKey, count |-> 0]

\* lines 406-410 and 437-438: the click state after a selection event
clicked_state(key, last_key, last_count) ==
    IF key # NoKey
    THEN IF key = last_key
         THEN [key |-> last_key, count |-> last_count + 1]
         ELSE [key |-> key, count |-> 1]
    ELSE [key |-> NoKey, count |-> 0]

\* a commit on the second click only
commits_once(count) == count = 2

\* a commit on every click
commits_always(count) == count >= 1

\* line 413
commits(count) == count > 1

\* the staged values are cleared by a click
clicked_values_cleared(values) == [n \in DOMAIN values |-> 0]

\* the staged mode falls back to 0 after a click
clicked_values_mode_cleared(values) == [values EXCEPT !["Mode"] = 0]

\* on_key_clicked reads integer_option_values (lines 423-427) and assigns none of them
clicked_values(values) == values

\* the read refresh ahead of the commit
click_frames_read_first(set_part, get_part) == get_part \o set_part

\* lines 413-443: usb_send of the set frame returns before refresh_key_display runs
click_frames(set_part, get_part) == set_part \o get_part

\* row and col start at another coordinate than (0, 0)
click_coordinate_last(key) == IF key = NoKey THEN <<1, 2>> ELSE key

\* the coordinate on_key_clicked refreshes: (row, col) start as (0, 0)
click_coordinate(key) == IF key = NoKey THEN <<0, 0>> ELSE key

on_key_clicked(key, setAns, oracle) ==
    LET state == clicked_state(key, last_clicked_key, last_click_count)
        commit == key # NoKey /\ commits(state.count)
        data == set_frame(key[1], key[2], integer_option_values)
        r == refresh_key_display(keyboard, container, FALSE, click_coordinate(key),
                                 device, oracle)
    IN  /\ container.exists /\ "Key Config" \in tabs /\ tabs_enabled
        /\ state.count <= MaxClicks
        /\ lastOp' = [op |-> "click", key |-> key]
        /\ lastSelected' = key
        /\ selectedRun' = IF key = NoKey THEN 0
                          ELSE IF key = lastSelected THEN selectedRun + 1 ELSE 1
        /\ layout_set' = FALSE
        /\ last_clicked_key' = state.key
        /\ last_click_count' = state.count
        /\ integer_option_values' = clicked_values(integer_option_values)
        /\ scenarioStep' =
              IF scenarioStep.step = 1
              THEN scenario_next(2, key = ScenarioKey /\ r.err = "none"
                                    /\ r.text[2] = config_text(CfgScenario))
              ELSE scenario_next(4, key = ScenarioKey)
        /\ UNCHANGED <<device, keyboard, tabs, tabs_enabled, lastStaged, keymap, codec>>
        /\ IF commit /\ ~struct_pack_ok(data)
           THEN /\ sent' = <<>>
                /\ replies' = <<>>
                /\ raised' = "struct.error"
                /\ UNCHANGED container
           ELSE IF commit /\ setAns = "raise"
           THEN /\ sent' = <<data>>
                /\ replies' = <<>>
                /\ raised' = "RuntimeError"
                /\ UNCHANGED container
           ELSE /\ container' = [container EXCEPT !.text = r.text]
                /\ sent' = click_frames(IF commit THEN <<data>> ELSE <<>>, r.sent)
                /\ replies' = click_frames(IF commit THEN <<usb_response(data, setAns)>>
                                                     ELSE <<>>, r.replies)
                /\ raised' = r.err

-----------------------------------------------------------------------------
(* on_layout_changed(): layout_editor.changed *)

\* line 450: nothing is done without a keyboard
layout_refreshes(kb) == kb # "none"

on_layout_changed(oracle) ==
    LET r == refresh_key_display(keyboard, container, TRUE, <<0, 0>>, device, oracle)
    IN  /\ lastOp' = [op |-> "layout", key |-> NoKey]
        /\ scenarioStep' = NoScenario
        /\ UNCHANGED <<device, keyboard, tabs, tabs_enabled, last_clicked_key,
                       last_click_count, integer_option_values, lastStaged, lastSelected,
                       selectedRun, keymap, codec>>
        /\ IF layout_refreshes(keyboard)
           THEN /\ container' = [container EXCEPT !.text = r.text]
                /\ sent' = r.sent
                /\ replies' = r.replies
                /\ raised' = r.err
                /\ layout_set' = (r.err = "none")
           ELSE /\ sent' = <<>>
                /\ replies' = <<>>
                /\ raised' = "none"
                /\ layout_set' = FALSE
                /\ UNCHANGED container

-----------------------------------------------------------------------------
(* adjust_size(minus): the zoom buttons of the Key Config tab. The scale is  *)
(* state of the KeyboardWidget (set_scale), which this file does not hold.  *)

adjust_size(minus, oracle) ==
    LET r == refresh_key_display(keyboard, container, FALSE, <<0, 0>>, device, oracle)
    IN  /\ container.exists /\ "Key Config" \in tabs /\ tabs_enabled
        /\ minus \in BOOLEAN
        /\ container' = [container EXCEPT !.text = r.text]
        /\ sent' = r.sent
        /\ replies' = r.replies
        /\ raised' = r.err
        /\ layout_set' = FALSE
        /\ lastOp' = [op |-> "zoom", key |-> NoKey]
        /\ scenarioStep' = NoScenario
        /\ UNCHANGED <<device, keyboard, tabs, tabs_enabled, last_clicked_key,
                       last_click_count, integer_option_values, lastStaged, lastSelected,
                       selectedRun, keymap, codec>>

-----------------------------------------------------------------------------
(* on_option_changed(): a spin box of a Displacement/Joystick/Calibration tab *)

LutTabs == {"Displacement", "Joystick", "Calibration"}

on_option_changed ==
    /\ tabs \cap LutTabs # {} /\ tabs_enabled
    /\ sent' = <<>>
    /\ replies' = <<>>
    /\ raised' = "none"
    /\ layout_set' = FALSE
    /\ lastOp' = [op |-> "option", key |-> NoKey]
    /\ scenarioStep' = NoScenario
    /\ UNCHANGED <<device, keyboard, container, tabs, tabs_enabled, last_clicked_key,
                   last_click_count, integer_option_values, lastStaged, lastSelected,
                   selectedRun, keymap, codec>>

-----------------------------------------------------------------------------
(* rebuild(device) *)

\* the click state rebuild leaves behind (it assigns neither field)
rebuild_clicked_key(key) == key
rebuild_click_count(count) == count

\* self.keyboard after rebuild(d): assigned only for a valid device
rebuild_keyboard(kb, d) == IF valid(d) THEN d ELSE kb

\* populate_tabs
populate_tabs(d) == hall_effect_tabs(d) \cap tab_mapping

rebuild(d, oracle) ==
    LET fresh == [exists |-> TRUE, keys |-> keys(d),
                  text |-> [i \in 1..Len(keys(d)) |-> <<>>]]
        r == refresh_key_display(d, fresh, TRUE, <<0, 0>>, d, oracle)
    IN  /\ device' = d
        /\ keyboard' = rebuild_keyboard(keyboard, d)
        /\ last_clicked_key' = rebuild_clicked_key(last_clicked_key)
        /\ last_click_count' = rebuild_click_count(last_click_count)
        /\ lastOp' = [op |-> "rebuild", key |-> NoKey]
        /\ UNCHANGED <<integer_option_values, lastStaged, lastSelected, selectedRun,
                       keymap, codec>>
        /\ IF valid(d)
           THEN /\ tabs' = populate_tabs(d)
                /\ IF "Key Config" \in hall_effect_tabs(d)
                   THEN /\ container' = [fresh EXCEPT !.text = r.text]
                        /\ sent' = r.sent
                        /\ replies' = r.replies
                        /\ raised' = r.err
                        /\ layout_set' = (r.err = "none")
                        /\ tabs_enabled' = IF r.err = "none" THEN TRUE ELSE tabs_enabled
                        /\ scenarioStep' =
                              scenario_next(1, d = "heA" /\ r.err = "none"
                                               /\ r.text[2] = config_text(CfgScenario))
                   ELSE /\ sent' = <<>>
                        /\ replies' = <<>>
                        /\ raised' = "none"
                        /\ layout_set' = FALSE
                        /\ tabs_enabled' = TRUE
                        /\ scenarioStep' = NoScenario
                        /\ UNCHANGED container
           ELSE /\ tabs' = {}
                /\ tabs_enabled' = FALSE
                /\ sent' = <<>>
                /\ replies' = <<>>
                /\ raised' = "none"
                /\ layout_set' = FALSE
                /\ scenarioStep' = NoScenario
                /\ UNCHANGED container

-----------------------------------------------------------------------------
(* on_keycode_changed(code) -> set_key(code): the write of a keycode into the  *)
(* selected keymap slot. set_key and the keycode table are not in this file;  *)
(* they follow section 4.2 of the specification (MaskedKeycodeTranslator).    *)

\* a keycode as outer(inner): outer "" is a keycode that is not wrapped
Masks == {"LSFT", "LT1"}
BasicIds == {"KC_A", "KC_B"}
Keycodes == [outer : Masks \cup {"", "XX"}, inner : BasicIds \cup {"MO1"}]

Rejected == <<>>       \* None as the result of a write

\* keycode table: basic-keycode classification
is_basic(code) == code.outer = "" /\ code.inner \in BasicIds

\* keycode table: the outer wrapper of code, <<>> when none resolves
find_outer_keycode(code) == IF code.outer \in Masks THEN <<code.outer>> ELSE <<>>

\* keycode table: the inner code of code
find_inner_keycode(code) == [outer |-> "", inner |-> code.inner]

\* a masked write that does not look at the new value
masked_write_unclassified(existing, new_basic, masked) ==
    IF ~masked THEN <<new_basic>>
    ELSE IF find_outer_keycode(existing) = <<>> THEN Rejected
    ELSE <<[outer |-> find_outer_keycode(existing)[1], inner |-> new_basic.inner]>>

\* write(existing, new_basic, masked)
masked_write(existing, new_basic, masked) ==
    IF ~masked THEN <<new_basic>>
    ELSE IF ~is_basic(new_basic) THEN Rejected
    ELSE IF find_outer_keycode(existing) = <<>> THEN Rejected
    ELSE <<[outer |-> find_outer_keycode(existing)[1], inner |-> new_basic.inner]>>

\* read(existing, masked)
masked_read(existing, masked) == IF masked THEN find_inner_keycode(existing) ELSE existing

on_keycode_changed(code, masked) ==
    LET result == masked_write(keymap.stored, code, masked)
    IN  /\ keymap' = [stored |-> IF result = Rejected THEN keymap.stored ELSE result[1],
                      new |-> code, masked |-> masked, result |-> result,
                      written |-> TRUE]
        /\ UNCHANGED <<device, keyboard, container, tabs, tabs_enabled, last_clicked_key,
                       last_click_count, integer_option_values, lastOp, sent, replies,
                       raised, layout_set, lastStaged, lastSelected, scenarioStep,
                       selectedRun, codec>>

InitKeymap ==
    /\ EditorInit /\ codec = CodecIdle
    /\ \E k \in Keycodes : keymap = [KeymapIdle EXCEPT !.stored = k]

NextKeymap == \E code \in Keycodes : \E masked \in BOOLEAN : on_keycode_changed(code, masked)

\* keycode writes into one keymap slot, from every stored keycode
SpecKeymap == InitKeymap /\ [][NextKeymap]_vars

-----------------------------------------------------------------------------
(* The codec alone: the set_key_config frame of on_key_clicked handed to the  *)
(* response decoder of code_for_widget                                        *)

CodecBytes == {0, 7, 255}
CodecCoords == {0, 255}

\* up and down sensitivity read in each other's place
unpack_key_config_swapped(data) ==
    LET buf == slice(data, 5, 10)
    IN  [mode |-> buf[1], actuation_point |-> buf[2], deadzone |-> buf[3],
         up_sensitivity |-> buf[5], down_sensitivity |-> buf[4]]

\* lines 360-369: the five fields struct.unpack reads in data[5:10]
unpack_key_config(data) ==
    LET buf == slice(data, 5, 10)
    IN  [mode |-> buf[1], actuation_point |-> buf[2], deadzone |-> buf[3],
         up_sensitivity |-> buf[4], down_sensitivity |-> buf[5]]

encode_set_key_config ==
    /\ codec.step = "input"
    /\ struct_pack_ok(set_frame(codec.row, codec.col, codec.values))
    /\ codec' = [codec EXCEPT !.frame = set_frame(codec.row, codec.col, codec.values),
                              !.step = "encoded"]
    /\ UNCHANGED <<device, keyboard, container, tabs, tabs_enabled, last_clicked_key,
                   last_click_count, integer_option_values, lastOp, sent, replies,
                   raised, layout_set, lastStaged, lastSelected, scenarioStep,
                   selectedRun, keymap>>

decode_key_config ==
    /\ codec.step = "encoded"
    /\ struct_unpack5_ok(slice(codec.frame, 5, 10))
    /\ codec' = [codec EXCEPT !.decoded = <<unpack_key_config(codec.frame)>>,
                              !.step = "decoded"]
    /\ UNCHANGED <<device, keyboard, container, tabs, tabs_enabled, last_clicked_key,
                   last_click_count, integer_option_values, lastOp, sent, replies,
                   raised, layout_set, lastStaged, lastSelected, scenarioStep,
                   selectedRun, keymap>>

InitCodec ==
    /\ EditorInit /\ keymap = KeymapIdle
    /\ \E row \in CodecCoords : \E col \in CodecCoords :
          \E values \in [OptionNames -> CodecBytes] :
             codec = [CodecIdle EXCEPT !.row = row, !.col = col, !.values = values,
                                       !.step = "input"]

NextCodec == encode_set_key_config \/ decode_key_config

\* every set frame over the sampled bytes, encoded and decoded
SpecCodec == InitCodec /\ [][NextCodec]_vars

-----------------------------------------------------------------------------
(* The specification *)

WidgetKeys == {NoKey} \cup {container.keys[i] : i \in 1..Len(container.keys)}

\* the set answer matters only to a click that commits
SetAnswersFor(key) ==
    IF key # NoKey /\ commits(clicked_state(key, last_clicked_key, last_click_count).count)
    THEN SetAnswers ELSE {"ok"}

NextUnaddressable ==
    \/ \E d \in DevicesUnaddressable :
           \E oracle \in Oracles([keys |-> keys(d)], TRUE, <<0, 0>>) : rebuild(d, oracle)
    \/ \E key \in WidgetKeys : \E setAns \in SetAnswersFor(key) :
           \E oracle \in Oracles(container, FALSE, click_coordinate(key)) :
              on_key_clicked(key, setAns, oracle)
    \/ \E name \in OptionNames : \E v \in StageVals : store_integer_value(name, v)
    \/ \E oracle \in Oracles(container, TRUE, <<0, 0>>) : on_layout_changed(oracle)
    \/ \E minus \in BOOLEAN : \E oracle \in Oracles(container, FALSE, <<0, 0>>) :
           adjust_size(minus, oracle)
    \/ on_option_changed

\* the editor on a keyboard with keys that are not matrix positions
SpecUnaddressable == Init /\ [][NextUnaddressable]_vars

Next ==
    \/ \E d \in Devices : \E oracle \in Oracles([keys |-> keys(d)], TRUE, <<0, 0>>) :
           rebuild(d, oracle)
    \/ \E key \in WidgetKeys : \E setAns \in SetAnswersFor(key) :
           \E oracle \in Oracles(container, FALSE, click_coordinate(key)) :
              on_key_clicked(key, setAns, oracle)
    \/ \E name \in OptionNames : \E v \in StageVals : store_integer_value(name, v)
    \/ \E oracle \in Oracles(container, TRUE, <<0, 0>>) : on_layout_changed(oracle)
    \/ \E minus \in BOOLEAN : \E oracle \in Oracles(container, FALSE, <<0, 0>>) :
           adjust_size(minus, oracle)
    \/ on_option_changed

Spec == Init /\ [][Next]_vars

-----------------------------------------------------------------------------
(* Properties *)

IsSetFrame(frame) == Len(frame) >= 2 /\ frame[2] = id_custom_set_key_config
IsGetFrame(frame) == Len(frame) >= 2 /\ frame[2] = id_custom_get_key_config
AddressedTo(frame, key) == Len(frame) >= 5 /\ frame[4] = key[1] /\ frame[5] = key[2]
SetFramesOf(frames) == {i \in 1..Len(frames) : IsSetFrame(frames[i])}

\* C1: a selection event for c arriving in Selected(c, n), n >= 1, moves the click
\* state to Selected(c, n+1) and hands over a set_key_config frame addressed to c,
\* on every consecutive repeat.
C1_RepeatCommits ==
    [][\A c \in Coordinates :
          (lastOp'.op = "click" /\ lastOp'.key = c
             /\ last_clicked_key = c /\ last_click_count >= 1)
          => /\ last_clicked_key' = c
             /\ last_click_count' = last_click_count + 1
             /\ \E i \in SetFramesOf(sent') : AddressedTo(sent'[i], c)]_vars

\* the third consecutive selection of (1, 2) has committed to it
C1_Witness ==
    /\ lastOp = [op |-> "click", key |-> <<1, 2>>]
    /\ last_clicked_key = <<1, 2>> /\ last_click_count = 3
    /\ \E i \in SetFramesOf(sent) : AddressedTo(sent[i], <<1, 2>>)

\* C2: a set_key_config frame is handed over only by a selection event for the
\* coordinate of the selection event right before it, and is addressed to it; a
\* selection of c arriving in Idle or in Selected(c', _), c' # c, moves to
\* Selected(c, 1) and hands over no set frame.
C2_SetOnlyOnRepeat ==
    [][/\ \A i \in SetFramesOf(sent') :
             /\ lastOp'.op = "click" /\ lastOp'.key # NoKey
             /\ lastSelected = lastOp'.key
             /\ AddressedTo(sent'[i], lastOp'.key)
       /\ \A c \in Coordinates :
             (lastOp'.op = "click" /\ lastOp'.key = c /\ last_clicked_key # c)
             => /\ last_clicked_key' = c /\ last_click_count' = 1
                /\ SetFramesOf(sent') = {}]_vars

\* a first selection of (1, 2) has read the key and committed nothing
C2_Witness ==
    /\ lastOp = [op |-> "click", key |-> <<1, 2>>]
    /\ last_clicked_key = <<1, 2>> /\ last_click_count = 1
    /\ sent = <<get_frame(1, 2)>>

\* C3: a selection event with no key moves the click state to Idle (None, 0) and
\* hands over no set frame, from any state; the selection of a coordinate that
\* follows a no-key selection event counts as a first one and does not commit.
C3_NoneResets ==
    [][/\ (lastOp'.op = "click" /\ lastOp'.key = NoKey)
          => /\ last_clicked_key' = NoKey /\ last_click_count' = 0
             /\ SetFramesOf(sent') = {}
       /\ (lastOp'.op = "click" /\ lastOp'.key # NoKey /\ lastSelected = NoKey)
          => /\ last_click_count' = 1
             /\ SetFramesOf(sent') = {}]_vars

\* a no-key selection event has reset the click state and read (0, 0)
C3_Witness ==
    /\ lastOp = [op |-> "click", key |-> NoKey]
    /\ last_clicked_key = NoKey /\ last_click_count = 0
    /\ sent = <<get_frame(0, 0)>>

C5_ScenarioFrame ==
    (scenarioStep = [on |-> TRUE, step |-> 4] /\ raised = "none")
    => /\ Len(sent) >= 1
       /\ sent[1] = <<255, 2, 0, 1, 2, 5, 30, 5, 10, 12>>

\* C6: a rebuild that changes the device resets the click state to (None, 0), and
\* the selection event that follows it hands over no set frame.
C6_RebuildResets ==
    [][/\ (lastOp'.op = "rebuild" /\ device' # device)
          => (last_clicked_key' = NoKey /\ last_click_count' = 0)
       /\ (lastOp.op = "rebuild" /\ lastOp'.op = "click")
          => SetFramesOf(sent') = {}]_vars

\* C7: a handler that runs while the device is not valid() hands no frame to the
\* transport.
C7_NoTrafficWhenInvalid == ~valid(device) => sent = <<>>

\* C8: staging a value hands over no frame and changes nothing but one staged
\* field: the other four fields, the click state and the display stay as they are.
C8_StoreFrame ==
    [][lastOp'.op = "store"
       => /\ sent' = <<>> /\ replies' = <<>> /\ raised' = "none"
          /\ last_clicked_key' = last_clicked_key
          /\ last_click_count' = last_click_count
          /\ container' = container
          /\ \E name \in OptionNames :
                /\ integer_option_values'[name] = lastStaged'[name]
                /\ \A other \in OptionNames \ {name} :
                      integer_option_values'[other] = integer_option_values[other]]_vars

\* a value was staged with another field staged, a key selected twice and shown
C8_Witness ==
    /\ lastOp.op = "store"
    /\ integer_option_values["Mode"] = 5 /\ integer_option_values["Deadzone"] = 5
    /\ last_clicked_key = <<1, 2>> /\ last_click_count = 2
    /\ container.text[2] = config_text(CfgScenario)

\* the text a widget showed before the handler that just ran (a rebuild makes new widgets)
TextBefore(w) == IF lastOp'.op = "rebuild" THEN <<>> ELSE container.text[w]

\* C9: when the buffer returned for a get_key_config frame has fewer than 10
\* bytes, the handler ends with an exception and every widget of that key shows
\* the text it showed before.
C9_ShortResponse ==
    [][\A i \in 1..Len(replies') :
          (IsGetFrame(sent'[i]) /\ Len(replies'[i]) < 10)
          => /\ raised' # "none"
             /\ \A w \in 1..Len(container'.keys) :
                   AddressedTo(sent'[i], container'.keys[w])
                   => container'.text[w] = TextBefore(w)]_vars

\* a selection of (1, 2) got a short buffer and the key still shows what it showed
C9_Witness ==
    /\ lastOp = [op |-> "click", key |-> <<1, 2>>]
    /\ raised = "struct.error"
    /\ Len(replies) = Len(sent) /\ Len(replies) >= 1
    /\ Len(replies[Len(replies)]) < 10
    /\ device = "heA" /\ container.text[2] = config_text(CfgOther)

\* C10: when usb_send raises on the set_key_config frame of a commit, the handler
\* ends with that exception and the five staged values are what they were.
C10_CommitFailure ==
    [][(lastOp'.op = "click" /\ Len(sent') >= 1 /\ IsSetFrame(sent'[1])
          /\ Len(replies') = 0)
       => /\ raised' = "RuntimeError"
          /\ integer_option_values' = integer_option_values]_vars

\* a commit of mode 5 to (1, 2) failed in the transport and mode 5 is still staged
C10_Witness ==
    /\ lastOp = [op |-> "click", key |-> <<1, 2>>]
    /\ raised = "RuntimeError"
    /\ sent = <<set_frame(1, 2, integer_option_values)>>
    /\ integer_option_values["Mode"] = 5

\* C11: a commit (a repeated selection) on a key with row < 0 or col < 0, or with
\* no row and col, hands over no set frame and ends without an exception.
C11_UnaddressableCommitNoOp ==
    [][(/\ lastOp'.op = "click" /\ lastOp'.key # NoKey
        /\ (lastOp'.key[1] < 0 \/ lastOp'.key[2] < 0)
        /\ last_clicked_key = lastOp'.key)
       => (SetFramesOf(sent') = {} /\ raised' = "none")]_vars

\* C12: a masked write changes the stored keycode only if the outer wrapper of the
\* stored keycode resolves and the new value is basic; in every other case the
\* write returns None and the stored keycode stays as it was.
C12_MaskedWrite ==
    [][keymap'.masked =>
          LET accepted == find_outer_keycode(keymap.stored) # <<>> /\ is_basic(keymap'.new)
          IN  /\ (keymap'.stored # keymap.stored) => accepted
              /\ ~accepted => (keymap'.result = Rejected /\ keymap'.stored = keymap.stored)]_vars

\* a masked write of a basic keycode into a slot whose wrapper resolves went through
C12_Witness ==
    /\ keymap.written /\ keymap.masked
    /\ keymap.result = <<[outer |-> "LSFT", inner |-> "KC_B"]>>
    /\ keymap.stored = [outer |-> "LSFT", inner |-> "KC_B"]
    /\ keymap.new = [outer |-> "", inner |-> "KC_B"]

\* C13: for five fields and a row and col that fit a byte, the response decoder
\* applied to bytes 5..9 of the 10-byte set_key_config frame gives back the five
\* fields, in the order mode, actuation point, deadzone, up, down sensitivity.
C13_CodecRoundTrip ==
    codec.step = "decoded" =>
        /\ Len(codec.frame) = 10
        /\ codec.decoded =
              <<[mode |-> codec.values["Mode"],
                 actuation_point |-> codec.values["Actuation Point"],
                 deadzone |-> codec.values["Deadzone"],
                 up_sensitivity |-> codec.values["Up Sensitivity"],
                 down_sensitivity |-> codec.values["Down Sensitivity"]]>>

\* a frame with five different-looking fields went through the round trip
C13_Witness ==
    /\ codec.step = "decoded"
    /\ codec.row = 255 /\ codec.col = 0
    /\ codec.frame = <<255, 2, 0, 255, 0, 7, 255, 0, 7, 255>>

\* C14: every frame handed to usb_send has byte 0 = 0xFF and byte 2 = 0x00 and is
\* a 5-byte get_key_config frame (byte 1 = 1) or a 10-byte set_key_config frame
\* (byte 1 = 2), never one of the LUT sub-commands 3 and 4; a change of a LUT
\* option hands over nothing.
C14_FrameShapes ==
    /\ \A i \in 1..Len(sent) :
          /\ sent[i][1] = command_id /\ sent[i][3] = channel_id
          /\ \/ Len(sent[i]) = 5 /\ sent[i][2] = id_custom_get_key_config
             \/ Len(sent[i]) = 10 /\ sent[i][2] = id_custom_set_key_config
          /\ sent[i][2] \notin {id_custom_get_lut_config, id_custom_set_lut_config}
    /\ lastOp.op = "option" => sent = <<>>

\* a click on a keyboard that also has LUT tabs handed over a set and a get frame
C14_Witness ==
    /\ lastOp.op = "click" /\ tabs \cap LutTabs # {}
    /\ Len(sent) = 2 /\ Len(sent[1]) = 10 /\ Len(sent[2]) = 5

\* C15: last_clicked_key is None exactly when last_click_count is 0, and when it
\* is a coordinate c the count is >= 1 and is the number of selection events for c
\* that arrived in a row, up to the latest one, with no other selection between.
C15_ClickStateWellFormed ==
    /\ (last_clicked_key = NoKey) <=> (last_click_count = 0)
    /\ last_clicked_key # NoKey =>
          /\ last_click_count >= 1
          /\ last_clicked_key = lastSelected
          /\ last_click_count = selectedRun

\* (0, 0) was selected twice in a row after a selection of another key
C15_Witness ==
    /\ last_clicked_key = <<0, 0>> /\ last_click_count = 2 /\ selectedRun = 2
    /\ Len(container.keys) = 2 /\ container.text[2] # <<>>

\* the read of a selection event for key: get frames only for key, the text of
\* key's widgets taken from bytes 5..9 of a response of at least 10 bytes, the
\* other widgets left alone
SelectionReads(key) ==
    /\ \A i \in 1..Len(sent') :
          IsGetFrame(sent'[i]) => sent'[i] = <<255, 1, 0, key[1], key[2]>>
    /\ \A i \in 1..Len(replies') :
          (IsGetFrame(sent'[i]) /\ Len(replies'[i]) >= 10) =>
              \A w \in 1..Len(container.keys) :
                 container.keys[w] = key =>
                    container'.text[w] = config_text(SubSeq(replies'[i], 6, 10))
    /\ \A w \in 1..Len(container.keys) :
          container.keys[w] # key => container'.text[w] = container.text[w]

SelectionIssuesGet(key) ==
    \E i \in 1..Len(sent') : sent'[i] = <<255, 1, 0, key[1], key[2]>>

\* the transport failed on the set frame of the selection event
SetFrameFailed ==
    /\ Len(sent') >= 1 /\ IsSetFrame(sent'[Len(sent')])
    /\ Len(replies') < Len(sent')

\* C16 as stated: every selection event for c, committing or not, hands over a
\* get_key_config frame [0xFF, 1, 0, row, col] for exactly c; a response of at
\* least 10 bytes makes the display of c its bytes 5..9; no key at another
\* coordinate is refreshed.
C16_SelectionReadsAlways ==
    [][(lastOp'.op = "click" /\ lastOp'.key # NoKey)
       => (SelectionIssuesGet(lastOp'.key) /\ SelectionReads(lastOp'.key))]_vars

\* C16: every selection event for c whose set frame, if it commits, did not fail
\* in the transport hands over a get_key_config frame [0xFF, 1, 0, row, col] for
\* exactly c; a response of at least 10 bytes makes the display of c its bytes
\* 5..9; no key at another coordinate is refreshed by any selection event.
C16_SelectionReads ==
    [][(lastOp'.op = "click" /\ lastOp'.key # NoKey)
       => /\ ~SetFrameFailed => SelectionIssuesGet(lastOp'.key)
          /\ SelectionReads(lastOp'.key)]_vars

\* a committing click on (1, 2) displayed the 12-byte response and left (0, 0) alone
C16_Witness ==
    /\ lastOp = [op |-> "click", key |-> <<1, 2>>]
    /\ Len(container.keys) = 2
    /\ Len(sent) = 2 /\ sent[2] = get_frame(1, 2)
    /\ Len(replies) = 2 /\ Len(replies[2]) = 12
    /\ container.text[2] = config_text(CfgScenario)
    /\ container.text[1] = config_text(CfgOther)

\* C17: each of the five staged values is an integer in 0..255, so every byte of
\* every set_key_config frame fits an unsigned byte and no commit fails in
\* struct.pack.
C17_StagedBytes ==
    /\ \A n \in OptionNames : integer_option_values[n] \in 0..255
    /\ \A i \in SetFramesOf(sent) : \A j \in 1..Len(sent[i]) : sent[i][j] \in 0..255
    /\ (lastOp.op = "click" /\ raised = "struct.error") =>
          (Len(replies) = Len(sent) /\ Len(replies) >= 1 /\ Len(replies[Len(replies)]) < 10)

\* a staged deadzone of 5 went out in a set frame
C17_Witness ==
    /\ lastOp.op = "click" /\ integer_option_values["Deadzone"] = 5
    /\ Len(sent) >= 1 /\ IsSetFrame(sent[1]) /\ sent[1][8] = 5

\* C18: in a committing selection event for c the set_key_config frame goes out
\* first and its response is back before the get_key_config frame for c goes
\* out, with no frame between the two.
C18_SetBeforeGet ==
    (lastOp.op = "click" /\ SetFramesOf(sent) # {}) =>
        /\ SetFramesOf(sent) = {1} /\ AddressedTo(sent[1], lastOp.key)
        /\ Len(sent) <= 2
        /\ Len(sent) = 2 =>
              /\ sent[2] = get_frame(lastOp.key[1], lastOp.key[2])
              /\ Len(replies) >= 1
              /\ SubSeq(replies[1], 1, 5) = SubSeq(sent[1], 1, 5)

\* a commit to (0, 0) was followed by the read of (0, 0), both answered
C18_Witness ==
    /\ lastOp = [op |-> "click", key |-> <<0, 0>>]
    /\ sent = <<set_frame(0, 0, integer_option_values), get_frame(0, 0)>>
    /\ Len(replies) = 2 /\ raised = "none"

\* C19: a selection event with no key selected hands over no set frame and reads
\* the default coordinate: one get_key_config frame [0xFF, 1, 0, 0, 0] per widget
\* at (0, 0) and no frame for another coordinate.
C19_NoneReadsOrigin ==
    lastOp = [op |-> "click", key |-> NoKey] =>
        LET atOrigin == {w \in 1..Len(container.keys) : container.keys[w] = <<0, 0>>}
        IN  /\ SetFramesOf(sent) = {}
            /\ \A i \in 1..Len(sent) : sent[i] = <<255, 1, 0, 0, 0>>
            /\ Len(sent) <= Cardinality(atOrigin)
            /\ raised = "none" => Len(sent) = Cardinality(atOrigin)

\* a deselection on a keyboard with a key at (0, 0) and one at (1, 2) read (0, 0) only
C19_Witness ==
    /\ lastOp = [op |-> "click", key |-> NoKey]
    /\ container.keys = << <<0, 0>>, <<1, 2>> >>
    /\ sent = <<get_frame(0, 0)>> /\ Len(replies) = 1 /\ raised = "none"

\* C20: a selection event changes none of the five staged values, whether it only
\* reads or also commits, so the set frame of a later commit to another key
\* carries the same staged values.
C20_ClickKeepsStaged ==
    [][lastOp'.op = "click" =>
          /\ integer_option_values' = integer_option_values
          /\ \A i \in SetFramesOf(sent') :
                SubSeq(sent'[i], 6, 10) =
                   <<integer_option_values'["Mode"],
                     integer_option_values'["Actuation Point"],
                     integer_option_values'["Deadzone"],
                     integer_option_values'["Up Sensitivity"],
                     integer_option_values'["Down Sensitivity"]>>]_vars

\* (0, 0) reported mode 2 and a commit of the staged mode 5 to it succeeded; 5 is
\* still staged
C20_Witness ==
    /\ lastOp = [op |-> "click", key |-> <<0, 0>>]
    /\ Len(sent) = 2 /\ IsSetFrame(sent[1]) /\ sent[1][6] = 5
    /\ container.text[1] = config_text(CfgScenario)
    /\ integer_option_values["Mode"] = 5

====
